---- MODULE Spec2Model ----
(***************************************************************************)
(* Model of packages/editor-ui/src/components/NodeCreator/sortUtils.ts:    *)
(* the subsequence filter (fuzzyMatchSimple), the scored fuzzy matcher     *)
(* (fuzzyMatch / fuzzyMatchRecursive), field extraction (getValue) and the *)
(* weighted ranked search (search).                                        *)
(*                                                                         *)
(* Strings are sequences of UTF-16 code units (integers).  Index variables *)
(* keep the 0-based values they have in the source; CharAt adds the 1.     *)
(***************************************************************************)
EXTENDS Integers, Sequences, FiniteSets, TLC

(***************************************************************************)
(* Scoring constants, sortUtils.ts lines 3-10.                             *)
(***************************************************************************)
SEQUENTIAL_BONUS == 30
SEPARATOR_BONUS == 30
CAMEL_BONUS == 30
FIRST_LETTER_BONUS == 15
LEADING_LETTER_PENALTY == -15
MAX_LEADING_LETTER_PENALTY == -200
UNMATCHED_LETTER_PENALTY == -5

\* fuzzyMatch's locals, lines 42 and 44.
recursionLimit == 5
maxMatches == 256

(***************************************************************************)
(* Characters.  String.prototype.toLowerCase / toUpperCase on one code     *)
(* unit; the strings of the model are drawn from ASCII and from CJK        *)
(* ideographs (which have no case), where the mapping is the ASCII one.    *)
(***************************************************************************)
toLowerCase(c) == IF c >= 65 /\ c <= 90 THEN c + 32 ELSE c
toUpperCase(c) == IF c >= 97 /\ c <= 122 THEN c - 32 ELSE c

\* s.charAt(i) / s[i] for 0 <= i < s.length
CharAt(s, i) == s[i + 1]

\* the comparison without the toLowerCase calls
SameCharExactly(pattern, i, target, j) ==
    CharAt(pattern, i) = CharAt(target, j)

\* pattern[i].toLowerCase() === target[j].toLowerCase(), lines 22-24 and 94
SameCharIgnoringCase(pattern, i, target, j) ==
    toLowerCase(CharAt(pattern, i)) = toLowerCase(CharAt(target, j))

(***************************************************************************)
(* fuzzyMatchSimple, lines 17-31.  SimpleStep is one evaluation of the     *)
(* while loop's condition and body on the pair of indices (the identity    *)
(* once the condition is false); the loop exits within target.length       *)
(* iterations, so SimpleLoop applies the step that many times (by halves,  *)
(* stopping once the condition is false, which keeps the evaluation        *)
(* shallow) and yields the final patternIdx.                               *)
(***************************************************************************)
SimpleCond(pattern, target, st) ==
    st.patternIdx < Len(pattern) /\ st.strIdx < Len(target)

SimpleStep(pattern, target, st) ==
    IF SimpleCond(pattern, target, st)
    THEN IF SameCharIgnoringCase(pattern, st.patternIdx, target, st.strIdx)
         THEN [patternIdx |-> st.patternIdx + 1, strIdx |-> st.strIdx + 1]
         ELSE [patternIdx |-> st.patternIdx, strIdx |-> st.strIdx + 1]
    ELSE st

RECURSIVE SimpleIterate(_, _, _, _)
SimpleIterate(pattern, target, st, n) ==
    IF n <= 0 THEN st
    ELSE IF n = 1 THEN SimpleStep(pattern, target, st)
    ELSE LET half == SimpleIterate(pattern, target, st, n \div 2)
         IN  IF SimpleCond(pattern, target, half)
             THEN SimpleIterate(pattern, target, half, n - (n \div 2))
             ELSE half

SimpleLoop(pattern, target) ==
    SimpleIterate(pattern, target, [patternIdx |-> 0, strIdx |-> 0],
                  Len(target)).patternIdx

fuzzyMatchSimple(pattern, target) ==
    /\ Len(pattern) # 0
    /\ Len(target) # 0
    /\ SimpleLoop(pattern, target) = Len(pattern)

(***************************************************************************)
(* Scoring of a full match, lines 136-181.  matches holds 0-based target   *)
(* indices in matches[1..nextMatch].                                       *)
(***************************************************************************)
\* lines 140-144
LeadingPenalty(matches) ==
    LET penalty == LEADING_LETTER_PENALTY * matches[1]
    IN  IF penalty < MAX_LEADING_LETTER_PENALTY
        THEN MAX_LEADING_LETTER_PENALTY
        ELSE penalty

\* lines 148-149
UnmatchedPenalty(target, nextMatch) ==
    UNMATCHED_LETTER_PENALTY * (Len(target) - nextMatch)

\* the test with "is its own upper case" in place of "is not its own lower
\* case" for the matched character
IsCamelBoundary_NotLowercase(neighbor, curr) ==
    neighbor # toUpperCase(neighbor) /\ curr = toUpperCase(curr)

\* lines 167-172: the camel-case test on the neighbour and the matched char
IsCamelBoundary(neighbor, curr) ==
    neighbor # toUpperCase(neighbor) /\ curr # toLowerCase(curr)

\* line 173: "_" is 95, " " is 32
IsSeparator(neighbor) == neighbor = 95 \/ neighbor = 32

\* lines 155-160: sequential bonus of the i-th recorded position (i is 0-based)
SequentialPart(matches, i) ==
    IF i > 0 /\ matches[i + 1] = matches[i] + 1 THEN SEQUENTIAL_BONUS ELSE 0

\* lines 163-180: bonuses from the neighbouring character
NeighborPart(target, currIdx) ==
    IF currIdx > 0
    THEN (IF IsCamelBoundary(CharAt(target, currIdx - 1), CharAt(target, currIdx))
          THEN CAMEL_BONUS ELSE 0)
         + (IF IsSeparator(CharAt(target, currIdx - 1)) THEN SEPARATOR_BONUS ELSE 0)
    ELSE FIRST_LETTER_BONUS

\* body of the for loop, lines 152-181, for one i
PositionBonus(target, matches, i) ==
    SequentialPart(matches, i) + NeighborPart(target, matches[i + 1])

\* the for loop, lines 152-181: sum of the bonuses of positions lo .. hi-1
RECURSIVE OrderingBonuses(_, _, _, _)
OrderingBonuses(target, matches, lo, hi) ==
    IF lo >= hi THEN 0
    ELSE IF hi = lo + 1 THEN PositionBonus(target, matches, lo)
    ELSE LET mid == (lo + hi) \div 2
         IN  OrderingBonuses(target, matches, lo, mid)
             + OrderingBonuses(target, matches, mid, hi)

\* outScore of lines 137-181
HeuristicScore(target, matches, nextMatch) ==
    100 + LeadingPenalty(matches) + UnmatchedPenalty(target, nextMatch)
        + OrderingBonuses(target, matches, 0, nextMatch)

(***************************************************************************)
(* fuzzyMatchRecursive, lines 60-197.  An invocation is a frame: the ten   *)
(* parameters and the locals of lines 85-90.  targetMatches is null or a   *)
(* reference to the caller's matches array; the caller is suspended while  *)
(* the callee runs, so the array is the value it had at the call.          *)
(***************************************************************************)
NullMatches == [isNull |-> TRUE, items |-> <<>>]
RefMatches(m) == [isNull |-> FALSE, items |-> m]

\* the value an invocation returns: [boolean, number]
Returned(m, s) == [matched |-> m, score |-> s]

\* the state of an invocation on entry, lines 60-72
NewFrame(pattern, target, patternCurIndex, targetCurrIndex, targetMatches, matches, maxM, nextMatch, recursionCount, recLimit) ==
    [pattern |-> pattern, target |-> target,
     patternCurIndex |-> patternCurIndex, targetCurrIndex |-> targetCurrIndex,
     targetMatches |-> targetMatches, matches |-> matches,
     maxMatches |-> maxM, nextMatch |-> nextMatch,
     recursionCount |-> recursionCount, recursionLimit |-> recLimit,
     outScore |-> 0,
     recursiveMatch |-> FALSE, bestRecursiveScore |-> 0, firstMatch |-> TRUE,
     pc |-> "entry"]

\* the limit test with > in place of >=
LimitReached_Late(f) == f.recursionCount + 1 > f.recursionLimit

\* line 75: ++recursionCount >= recursionLimit
LimitReached(f) == f.recursionCount + 1 >= f.recursionLimit

\* line 80
AtEndOfStrings(f) ==
    f.patternCurIndex = Len(f.pattern) \/ f.targetCurrIndex = Len(f.target)

\* lines 75-90 when neither early return is taken
Entered(f) == [f EXCEPT !.recursionCount = @ + 1, !.pc = "loop"]

\* line 91, the loop condition
LoopCond(f) ==
    f.patternCurIndex < Len(f.pattern) /\ f.targetCurrIndex < Len(f.target)

\* lines 93-95
MatchFound(f) ==
    SameCharIgnoringCase(f.pattern, f.patternCurIndex, f.target, f.targetCurrIndex)

\* the cap test one position early
CapReached_OneEarly(f) == f.nextMatch + 1 >= f.maxMatches

\* line 96
CapReached(f) == f.nextMatch >= f.maxMatches

\* lines 100-103; a non-null targetMatches is an array, which is truthy
\* even when empty
CopyOnFirstMatch(f) ==
    IF f.firstMatch /\ ~f.targetMatches.isNull
    THEN [f EXCEPT !.matches = f.targetMatches.items, !.firstMatch = FALSE,
                   !.pc = "call"]
    ELSE [f EXCEPT !.pc = "call"]

\* the arguments of the recursive call, lines 105-117, given the caller
\* after lines 100-103.  recursiveMatches is a fresh empty array.
ChildFrame(f) ==
    NewFrame(f.pattern, f.target, f.patternCurIndex, f.targetCurrIndex + 1,
             RefMatches(f.matches), <<>>, f.maxMatches, f.nextMatch,
             f.recursionCount, f.recursionLimit)

\* matches[nextMatch] = v on a JavaScript array whose length is nextMatch
\* or more
StoreAt(matches, nextMatch, v) ==
    IF nextMatch < Len(matches)
    THEN [matches EXCEPT ![nextMatch + 1] = v]
    ELSE Append(matches, v)

\* lines 119-131 without the ++targetCurrIndex of line 131
AfterCall_SameTargetChar(f, r) ==
    [f EXCEPT
       !.bestRecursiveScore =
           IF r.matched /\ (~f.recursiveMatch \/ r.score > f.bestRecursiveScore)
           THEN r.score ELSE @,
       !.recursiveMatch = @ \/ r.matched,
       !.matches = StoreAt(f.matches, f.nextMatch, f.targetCurrIndex),
       !.nextMatch = @ + 1,
       !.patternCurIndex = @ + 1,
       !.pc = "loop"]

\* lines 119-131: the caller after the recursive call returned r
AfterCall(f, r) ==
    [f EXCEPT
       !.bestRecursiveScore =
           IF r.matched /\ (~f.recursiveMatch \/ r.score > f.bestRecursiveScore)
           THEN r.score ELSE @,
       !.recursiveMatch = @ \/ r.matched,
       !.matches = StoreAt(f.matches, f.nextMatch, f.targetCurrIndex),
       !.nextMatch = @ + 1,
       !.patternCurIndex = @ + 1,
       !.targetCurrIndex = @ + 1,
       !.pc = "loop"]

\* lines 91-95 and 131, repeated while the characters differ: each such
\* iteration only increments targetCurrIndex, so the run of them ends at
\* the next index where the characters are the same, or at target.length
NextStop(f) ==
    CHOOSE j \in (f.targetCurrIndex + 1)..Len(f.target) :
        /\ j = Len(f.target)
              \/ SameCharIgnoringCase(f.pattern, f.patternCurIndex, f.target, j)
        /\ \A k \in (f.targetCurrIndex + 1)..(j - 1) :
              ~SameCharIgnoringCase(f.pattern, f.patternCurIndex, f.target, k)

Advance(f) == [f EXCEPT !.targetCurrIndex = NextStop(f)]

\* lines 134-196 without the test of line 184: the invocation's own score
FrameResult_OwnScoreOnly(f) ==
    IF f.patternCurIndex = Len(f.pattern)
    THEN [matched |-> TRUE,
          score |-> HeuristicScore(f.target, f.matches, f.nextMatch)]
    ELSE [matched |-> FALSE, score |-> f.outScore]

\* lines 134-196: the value returned once the loop has exited
FrameResult(f) ==
    LET matched == f.patternCurIndex = Len(f.pattern)
        outScore == HeuristicScore(f.target, f.matches, f.nextMatch)
    IN  IF matched
        THEN IF f.recursiveMatch /\ (~matched \/ f.bestRecursiveScore > outScore)
             THEN Returned(TRUE, f.bestRecursiveScore)
             ELSE Returned(TRUE, outScore)
        ELSE Returned(FALSE, f.outScore)

(***************************************************************************)
(* The function as a whole.  Invoke(f) is the value the invocation with    *)
(* entry state f returns.  LoopStep is one evaluation of the while loop's  *)
(* condition and body, lines 91-132, recursive call included (or one run   *)
(* of iterations whose characters differ); it leaves                       *)
(* the frame at pc "exit" when the condition is false and at pc "abort"    *)
(* on the return of line 97.  The loop exits within                        *)
(* target.length - targetCurrIndex iterations; RunLoop applies the step    *)
(* once more than that (by halves, stopping once the loop has been left,   *)
(* which keeps the evaluation shallow).                                    *)
(***************************************************************************)
RECURSIVE Invoke(_)
RECURSIVE LoopIterate(_, _)

LoopStep(f) ==
    IF f.pc # "loop" THEN f
    ELSE IF LoopCond(f)
    THEN IF MatchFound(f)
         THEN IF CapReached(f)
              THEN [f EXCEPT !.pc = "abort"]
              ELSE AfterCall(CopyOnFirstMatch(f),
                             Invoke(ChildFrame(CopyOnFirstMatch(f))))
         ELSE Advance(f)
    ELSE [f EXCEPT !.pc = "exit"]

LoopIterate(f, n) ==
    IF n <= 0 THEN f
    ELSE IF n = 1 THEN LoopStep(f)
    ELSE LET half == LoopIterate(f, n \div 2)
         IN  IF half.pc = "loop"
             THEN LoopIterate(half, n - (n \div 2))
             ELSE half

RunLoop(f) ==
    LET e == LoopIterate(f, Len(f.target) - f.targetCurrIndex + 1)
    IN  IF e.pc = "abort"
        THEN Returned(FALSE, e.outScore)
        ELSE FrameResult(e)

Invoke(f) ==
    IF LimitReached(f) \/ AtEndOfStrings(f)
    THEN Returned(FALSE, f.outScore)
    ELSE RunLoop(Entered(f))

\* fuzzyMatch, lines 40-58
TopFrame(pattern, target) ==
    NewFrame(pattern, target, 0, 0, NullMatches, <<>>, maxMatches, 0, 0,
             recursionLimit)

fuzzyMatch(pattern, target) == Invoke(TopFrame(pattern, target))

(***************************************************************************)
(* JavaScript values, as far as getValue and search distinguish them.      *)
(* An object is its own properties, a function from property names to      *)
(* values; property names are strings (sequences of code units).           *)
(***************************************************************************)
Undefined == [type |-> "undefined"]
Null == [type |-> "null"]
Str(chars) == [type |-> "string", chars |-> chars]
Num(n) == [type |-> "number", num |-> n]
Arr(elems) == [type |-> "array", elems |-> elems]
Obj(props) == [type |-> "object", props |-> props]

\* the typeof operator
TypeOf(v) ==
    IF v.type \in {"null", "array", "object"} THEN "object" ELSE v.type

\* ToBoolean
Truthy(v) ==
    CASE v.type = "undefined" -> FALSE
      [] v.type = "null" -> FALSE
      [] v.type = "string" -> Len(v.chars) # 0
      [] v.type = "number" -> v.num # 0
      [] OTHER -> TRUE

\* v[name] for a v that is neither null nor undefined and a name that is
\* not an array index, "length" or a name found on a prototype
GetProperty(v, name) ==
    IF v.type = "object" /\ name \in DOMAIN v.props
    THEN v.props[name]
    ELSE Undefined

\* what an evaluation yields: a value, or a TypeError thrown
Ok(v) == [kind |-> "ok", value |-> v]
TypeError == [kind |-> "TypeError"]

\* prop.split('.'), line 211; "." is 46
RECURSIVE Split(_)
Split(prop) ==
    IF \E i \in 1..Len(prop) : prop[i] = 46
    THEN LET dot == CHOOSE i \in 1..Len(prop) :
                       prop[i] = 46 /\ \A k \in 1..(i - 1) : prop[k] # 46
         IN  << SubSeq(prop, 1, dot - 1) >>
                 \o Split(SubSeq(prop, dot + 1, Len(prop)))
    ELSE << prop >>

\* the while loop of lines 214-217
RECURSIVE WalkSegments(_, _, _)
WalkSegments(result, segments, i) ==
    IF Truthy(result) /\ i < Len(segments)
    THEN WalkSegments(GetProperty(result, segments[i + 1]), segments, i + 1)
    ELSE result

\* getValue, lines 202-219.  typeof null is "object", and
\* null.hasOwnProperty raises a TypeError.
getValue(obj, prop) ==
    IF TypeOf(obj) # "object" THEN Ok(obj)
    ELSE IF obj.type = "null" THEN TypeError
    ELSE IF obj.type = "object" /\ prop \in DOMAIN obj.props
    THEN Ok(obj.props[prop])
    ELSE Ok(WalkSegments(obj, Split(prop), 0))

(***************************************************************************)
(* fuzzyMatchSimple, lines 17-31, called with a target that need not be a  *)
(* string.  target.length of null or undefined raises a TypeError, and is  *)
(* evaluated unless pattern is empty; a number or an object has no length, *)
(* the loop is skipped and patternIdx stays 0; an array has a length but   *)
(* no charAt, which the first iteration calls.                             *)
(***************************************************************************)
fuzzyMatchSimpleOf(pattern, value) ==
    CASE value.type = "string" -> Ok(fuzzyMatchSimple(pattern, value.chars))
      [] value.type \in {"null", "undefined"} ->
            IF Len(pattern) = 0 THEN Ok(FALSE) ELSE TypeError
      [] value.type = "array" ->
            IF Len(pattern) # 0 /\ Len(value.elems) # 0
            THEN TypeError ELSE Ok(FALSE)
      [] OTHER -> Ok(FALSE)

(***************************************************************************)
(* search, lines 226-275.                                                  *)
(***************************************************************************)
\* value.map((v) => ({value: v, weight})), line 232
WithWeight(elems, weight) ==
    [i \in 1..Len(elems) |-> [value |-> elems[i], weight |-> weight]]

\* the callback of keys.forEach, lines 229-240, for keys[k+1 ..]
RECURSIVE CollectValues(_, _, _, _)
CollectValues(item, keys, k, values) ==
    IF k >= Len(keys) THEN Ok(values)
    ELSE LET got == getValue(item, keys[k + 1].key)
             weight == keys[k + 1].weight
         IN  IF got.kind = "TypeError" THEN TypeError
             ELSE IF got.value.type = "array"
             THEN CollectValues(item, keys, k + 1,
                                values \o WithWeight(got.value.elems, weight))
             ELSE IF Truthy(got.value)
             THEN CollectValues(item, keys, k + 1,
                       Append(values, [value |-> got.value, weight |-> weight]))
             ELSE CollectValues(item, keys, k + 1, values)

\* the accumulator of the reduce: null or a [boolean, number] pair
NoMatch == [isNull |-> TRUE]
Match(m, s) == [isNull |-> FALSE, matched |-> m, score |-> s]

\* the callback without line 248: the score is not multiplied
Reducer_Unweighted(accu, match, weight) ==
    IF accu.isNull /\ match.matched
    THEN [isNull |-> FALSE, matched |-> match.matched, score |-> match.score]
    ELSE IF match.matched /\ ~accu.isNull /\ match.score > accu.score
    THEN [isNull |-> FALSE, matched |-> match.matched, score |-> match.score]
    ELSE accu

\* the callback without lines 252-254: the first match is kept
Reducer_KeepsFirst(accu, match, weight) ==
    IF accu.isNull /\ match.matched
    THEN [isNull |-> FALSE, matched |-> match.matched,
          score |-> match.score * weight]
    ELSE accu

\* the callback of values.reduce, lines 242-256, given the result of
\* fuzzyMatch(filter, value)
Reducer(accu, match, weight) ==
    LET weighted == Match(match.matched, match.score * weight)
    IN  IF accu.isNull /\ weighted.matched THEN weighted
        ELSE IF weighted.matched /\ ~accu.isNull /\ weighted.score > accu.score
        THEN weighted
        ELSE accu

\* values.reduce(..., null), lines 242-256, for values[v+1 ..]
RECURSIVE ReduceValues(_, _, _, _)
ReduceValues(filter, values, v, accu) ==
    IF v >= Len(values) THEN Ok(accu)
    ELSE LET simple == fuzzyMatchSimpleOf(filter, values[v + 1].value)
         IN  IF simple.kind = "TypeError" THEN TypeError
             ELSE IF ~simple.value
             THEN ReduceValues(filter, values, v + 1, accu)
             ELSE ReduceValues(filter, values, v + 1,
                      Reducer(accu,
                              fuzzyMatch(filter, values[v + 1].value.chars),
                              values[v + 1].weight))

\* the callback of data.map, lines 227-266, for data[i]: null, or a Result
\* whose item refers to data[i]
NullResult == [isNull |-> TRUE]
ResultOf(score, i) == [isNull |-> FALSE, score |-> score, item |-> i]

MapItem(filter, data, keys, i) ==
    LET values == CollectValues(data[i], keys, 0, << >>)
    IN  IF values.kind = "TypeError" THEN TypeError
        ELSE LET itemMatch == ReduceValues(filter, values.value, 0, NoMatch)
             IN  IF itemMatch.kind = "TypeError" THEN TypeError
                 ELSE IF itemMatch.value.isNull THEN Ok(NullResult)
                 ELSE Ok(ResultOf(itemMatch.value.score, i))

\* results.filter(item => item !== null), line 268
RECURSIVE FilterNonNull(_)
FilterNonNull(results) ==
    IF results = << >> THEN << >>
    ELSE IF results[1].isNull THEN FilterNonNull(Tail(results))
    ELSE << results[1] >> \o FilterNonNull(Tail(results))

\* the comparator with its operands exchanged
Compare_Ascending(a, b) == a.score - b.score

\* the comparator of lines 270-272
Compare(a, b) == b.score - a.score

(***************************************************************************)
(* Array.prototype.sort with that comparator, as a stable insertion sort:  *)
(* an element goes after the sorted elements that do not compare above it. *)
(***************************************************************************)
RECURSIVE InsertSorted(_, _)
InsertSorted(sorted, x) ==
    IF sorted = << >> THEN << x >>
    ELSE IF Compare(sorted[1], x) <= 0
    THEN << sorted[1] >> \o InsertSorted(Tail(sorted), x)
    ELSE << x >> \o sorted

RECURSIVE Sort(_)
Sort(arr) ==
    IF arr = << >> THEN << >>
    ELSE InsertSorted(Sort(SubSeq(arr, 1, Len(arr) - 1)), arr[Len(arr)])

(***************************************************************************)
(* Inputs of the matcher.  Strings over a small alphabet, exhaustively up  *)
(* to the bounds, and a few longer strings: the examples of the            *)
(* documentation and strings of 256 and 257 distinct caseless characters.  *)
(***************************************************************************)
MaxPatternLen == 2
MaxTargetLen == 3

\* "a", "A", "b", "_"
Alphabet == {97, 65, 98, 95}

StringsUpTo(n) == UNION {[1..k -> Alphabet] : k \in 0..n}

\* n distinct CJK ideographs
Ideographs(n) == [i \in 1..n |-> 19968 + i]

AtCap == Ideographs(maxMatches)
OverCap == Ideographs(maxMatches + 1)

ExamplePairs ==
    { << <<97, 98>>, <<97, 95, 97, 98>> >>,                 \* "ab", "a_ab"
      << <<110>>, <<109, 121, 78, 111, 100, 101>> >>,       \* "n", "myNode"
      << <<110>>, <<109, 121, 110, 111, 100, 101>> >>,      \* "n", "mynode"
      << <<110>>, <<109, 121, 95, 110, 111, 100, 101>> >>,  \* "n", "my_node"
      << <<49>>, <<97, 49>> >>,                             \* "1", "a1"
      << <<97>>, <<32, 97>> >>,                             \* "a", " a"
      << <<97>>, <<97, 97, 97, 97, 97, 97>> >>,             \* "a", "aaaaaa"
      << AtCap, AtCap >>,
      << OverCap, OverCap >> }

MatcherInputs ==
    (StringsUpTo(MaxPatternLen) \X StringsUpTo(MaxTargetLen)) \cup ExamplePairs

(***************************************************************************)
(* Inputs of search: filters, KeySpec lists and candidate items.  Items    *)
(* are drawn from a pool holding the items of the documented example,      *)
(* items with two scalar fields, array-valued and nested fields, and       *)
(* values of other shapes.                                                 *)
(***************************************************************************)
MaxItems == 2

Str_nd == <<110, 100>>
Str_a == <<97>>
Str_NodeA == <<78, 111, 100, 101, 32, 65>>
Str_Other == <<79, 116, 104, 101, 114>>
Str_Sandbox == <<83, 97, 110, 100, 98, 111, 120>>
Str_and == <<97, 110, 100>>
Str_bbbbba == <<98, 98, 98, 98, 98, 97>>

Key_name == <<110, 97, 109, 101>>
Key_alias == <<97, 108, 105, 97, 115>>
Key_codex == <<99, 111, 100, 101, 120>>
Key_codex_alias == Key_codex \o <<46>> \o Key_alias

Filters == { << >>, Str_nd, Str_a }

KeySpec(key, weight) == [key |-> key, weight |-> weight]

KeySpecLists ==
    { << KeySpec(Key_name, 1) >>,
      << KeySpec(Key_name, 1), KeySpec(Key_alias, 10) >>,
      << KeySpec(Key_alias, 1), KeySpec(Key_name, 10) >>,
      << KeySpec(Key_codex_alias, 2), KeySpec(Key_name, 3) >> }

ObjectItems ==
    { Obj(Key_name :> Str(Str_NodeA)),
      Obj(Key_name :> Str(Str_Other)),
      Obj(Key_name :> Str(Str_Sandbox)),
      Obj(Key_name :> Str(Str_a) @@ Key_alias :> Str(Str_bbbbba)),
      Obj(Key_name :> Str(Str_NodeA) @@ Key_alias :> Str(Str_nd)),
      Obj(Key_name :> Str(<< >>)
            @@ Key_alias :> Arr(<< Str(Str_Sandbox), Str(Str_and) >>)),
      Obj(Key_codex :> Obj(Key_alias :> Str(Str_nd))),
      Obj(Key_codex_alias :> Str(Str_Sandbox) @@ Key_name :> Str(Str_a)) }

OtherItems ==
    { Null,
      Undefined,
      Str(Str_nd),
      Num(5),
      Obj(Key_name :> Num(5) @@ Key_alias :> Null),
      Obj(Key_name :> Str(Str_nd) @@ Key_alias :> Arr(<< Str(Str_nd), Null >>)),
      Arr(<< Str(Str_nd) >>) }

ItemPool == ObjectItems \cup OtherItems

ItemLists == UNION {[1..n -> ItemPool] : n \in 0..MaxItems}

SearchInput(f, d, k) == [filter |-> f, data |-> d, keys |-> k]

SearchInputs ==
    {SearchInput(f, d, k) : f \in Filters, d \in ItemLists, k \in KeySpecLists}
    \cup {SearchInput(f, << Obj(Key_name :> Str(f)) >>, << KeySpec(Key_name, 1) >>) :
              f \in {AtCap, OverCap}}

(***************************************************************************)
(* The matcher as a state machine: one call of fuzzyMatch(pattern, target) *)
(* executed invocation by invocation.  stack holds the frames of the       *)
(* active invocations of fuzzyMatchRecursive, innermost last; returned     *)
(* holds the value of the invocation that has just returned, until its     *)
(* caller consumes it (or for good, once the outermost has returned).      *)
(* childScores is a history variable: for each active invocation, the      *)
(* scores of the recursive calls it made that returned matched.            *)
(***************************************************************************)
VARIABLES pattern, target, stack, returned, childScores

matcherVars == <<pattern, target, stack, returned, childScores>>

(***************************************************************************)
(* search as a state machine: one call of search(filter, data, keys).      *)
(* results is the array data.map is building, one entry per item visited;  *)
(* output is the array returned; searchState tells whether the call is     *)
(* still mapping, has returned, or has ended with a TypeError.             *)
(***************************************************************************)
VARIABLES filter, data, keys, results, output, searchState

searchVars == <<filter, data, keys, results, output, searchState>>

vars == <<matcherVars, searchVars>>

\* no call of search is in progress
NoSearch ==
    /\ filter = << >>
    /\ data = << >>
    /\ keys = << >>
    /\ results = << >>
    /\ output = << >>
    /\ searchState = "none"

\* no call of fuzzyMatch is being followed
NoMatcher ==
    /\ pattern = << >>
    /\ target = << >>
    /\ stack = << >>
    /\ returned = << >>
    /\ childScores = << >>

Top == stack[Len(stack)]

Front(q) == SubSeq(q, 1, Len(q) - 1)

SetTop(q, v) == [q EXCEPT ![Len(q)] = v]

Init ==
    /\ \E input \in MatcherInputs :
           /\ pattern = input[1]
           /\ target = input[2]
    /\ stack = << TopFrame(pattern, target) >>
    /\ returned = << >>
    /\ childScores = << {} >>
    /\ NoSearch

\* a return statement of the innermost invocation
Return(v) ==
    /\ stack' = Front(stack)
    /\ returned' = << v >>
    /\ childScores' = Front(childScores)
    /\ UNCHANGED <<pattern, target, searchVars>>

\* lines 75-77
ReturnAtLimit ==
    /\ stack # << >>
    /\ Top.pc = "entry"
    /\ LimitReached(Top)
    /\ Return(Returned(FALSE, Top.outScore))

\* lines 80-82
ReturnAtEnd ==
    /\ stack # << >>
    /\ Top.pc = "entry"
    /\ ~LimitReached(Top)
    /\ AtEndOfStrings(Top)
    /\ Return(Returned(FALSE, Top.outScore))

\* lines 85-90
EnterLoop ==
    /\ stack # << >>
    /\ Top.pc = "entry"
    /\ ~LimitReached(Top)
    /\ ~AtEndOfStrings(Top)
    /\ stack' = SetTop(stack, Entered(Top))
    /\ UNCHANGED <<pattern, target, returned, childScores, searchVars>>

\* lines 91-95 and 131: the iterations whose characters differ, up to the
\* next one whose characters are the same or to the end of the target
Scan ==
    /\ stack # << >>
    /\ Top.pc = "loop"
    /\ LoopCond(Top)
    /\ ~MatchFound(Top)
    /\ stack' = SetTop(stack, Advance(Top))
    /\ UNCHANGED <<pattern, target, returned, childScores, searchVars>>

\* lines 96-98
ReturnAtCap ==
    /\ stack # << >>
    /\ Top.pc = "loop"
    /\ LoopCond(Top)
    /\ MatchFound(Top)
    /\ CapReached(Top)
    /\ Return(Returned(FALSE, Top.outScore))

\* lines 100-117: the recursive call
Call ==
    /\ stack # << >>
    /\ Top.pc = "loop"
    /\ LoopCond(Top)
    /\ MatchFound(Top)
    /\ ~CapReached(Top)
    /\ stack' = Append(SetTop(stack, CopyOnFirstMatch(Top)),
                       ChildFrame(CopyOnFirstMatch(Top)))
    /\ childScores' = Append(childScores, {})
    /\ UNCHANGED <<pattern, target, returned, searchVars>>

\* lines 106 and 119-131: the recursive call has returned
Resume ==
    /\ stack # << >>
    /\ Top.pc = "call"
    /\ returned # << >>
    /\ stack' = SetTop(stack, AfterCall(Top, returned[1]))
    /\ returned' = << >>
    /\ childScores' = SetTop(childScores,
                             IF returned[1].matched
                             THEN childScores[Len(childScores)]
                                      \cup {returned[1].score}
                             ELSE childScores[Len(childScores)])
    /\ UNCHANGED <<pattern, target, searchVars>>

\* lines 134-196: the loop has exited
Finish ==
    /\ stack # << >>
    /\ Top.pc = "loop"
    /\ ~LoopCond(Top)
    /\ Return(FrameResult(Top))

Next ==
    \/ ReturnAtLimit
    \/ ReturnAtEnd
    \/ EnterLoop
    \/ Scan
    \/ ReturnAtCap
    \/ Call
    \/ Resume
    \/ Finish

Spec == Init /\ [][Next]_vars

\* the matcher is a sequential program: it takes its next step
LiveSpec == Spec /\ WF_vars(Next)

Done == stack = << >>

\* the run of the state machine and the function agree
MachineAgrees == Done => returned = << fuzzyMatch(pattern, target) >>

SearchInit ==
    /\ \E input \in SearchInputs :
           /\ filter = input.filter
           /\ data = input.data
           /\ keys = input.keys
    /\ results = << >>
    /\ output = << >>
    /\ searchState = "mapping"
    /\ NoMatcher

\* lines 227-266: the callback of data.map on the next item
VisitItem ==
    /\ searchState = "mapping"
    /\ Len(results) < Len(data)
    /\ MapItem(filter, data, keys, Len(results) + 1).kind = "ok"
    /\ results' = Append(results,
                         MapItem(filter, data, keys, Len(results) + 1).value)
    /\ UNCHANGED <<filter, data, keys, output, searchState, matcherVars>>

\* lines 227-266: the callback raises a TypeError, which ends the call
VisitItemThrows ==
    /\ searchState = "mapping"
    /\ Len(results) < Len(data)
    /\ MapItem(filter, data, keys, Len(results) + 1).kind = "TypeError"
    /\ searchState' = "thrown"
    /\ UNCHANGED <<filter, data, keys, results, output, matcherVars>>

\* lines 268-274
FilterAndSort ==
    /\ searchState = "mapping"
    /\ Len(results) = Len(data)
    /\ output' = Sort(FilterNonNull(results))
    /\ searchState' = "returned"
    /\ UNCHANGED <<filter, data, keys, results, matcherVars>>

SearchNext ==
    \/ VisitItem
    \/ VisitItemThrows
    \/ FilterAndSort

SearchSpec == SearchInit /\ [][SearchNext]_vars

(***************************************************************************)
(* Notions the statements below are about, defined without the program.    *)
(***************************************************************************)
IsLowercaseLetter(c) == c \in 97..122
IsUppercaseLetter(c) == c \in 65..90

\* the same character up to case
SameLetter(c, d) ==
    \/ c = d
    \/ IsUppercaseLetter(c) /\ d = c + 32
    \/ IsUppercaseLetter(d) /\ c = d + 32

SetMax(S) == CHOOSE x \in S : \A y \in S : y <= x
SetMin(S) == CHOOSE x \in S : \A y \in S : x <= y

(***************************************************************************)
(* The earliest embedding of p[lo..hi] into t[from..Len(t)] (1-based):     *)
(* whether there is one, the 0-based target indices it uses, each the      *)
(* earliest available, and the 1-based index after the last one.  The      *)
(* earliest embedding of a segment is that of its first half followed by   *)
(* that of its second half from where the first one ended.                 *)
(***************************************************************************)
RECURSIVE EarliestEmbedding(_, _, _, _, _)
EarliestEmbedding(p, lo, hi, t, from) ==
    IF lo > hi THEN [ok |-> TRUE, pos |-> << >>, next |-> from]
    ELSE IF lo = hi
    THEN LET occ == {j \in from..Len(t) : SameLetter(t[j], p[lo])}
         IN  IF occ = {}
             THEN [ok |-> FALSE, pos |-> << >>, next |-> from]
             ELSE [ok |-> TRUE, pos |-> << SetMin(occ) - 1 >>,
                   next |-> SetMin(occ) + 1]
    ELSE LET mid == (lo + hi) \div 2
             left == EarliestEmbedding(p, lo, mid, t, from)
         IN  IF ~left.ok THEN left
             ELSE LET right == EarliestEmbedding(p, mid + 1, hi, t, left.next)
                  IN  [ok |-> right.ok, pos |-> left.pos \o right.pos,
                       next |-> right.next]

\* p's characters appear in t, in order, compared case-insensitively
IsSubsequence(p, t) == EarliestEmbedding(p, 1, Len(p), t, 1).ok

\* the score of the greedy alignment: every pattern character at its
\* earliest available position
GreedyScore(p, t) ==
    HeuristicScore(t, EarliestEmbedding(p, 1, Len(p), t, 1).pos, Len(p))

StrictlyIncreasing(q) == \A i \in 1..(Len(q) - 1) : q[i] < q[i + 1]

\* the innermost invocation has left its loop with the whole pattern
\* consumed: its next step scores its alignment and returns
AboutToScore ==
    /\ stack # << >>
    /\ Top.pc = "loop"
    /\ ~LoopCond(Top)
    /\ Top.patternCurIndex = Len(Top.pattern)

Result == returned[1]

\* the strings of the documented examples
Str_ab == <<97, 98>>
Str_a_ab == <<97, 95, 97, 98>>
Str_n == <<110>>
Str_myNode == <<109, 121, 78, 111, 100, 101>>
Str_mynode == <<109, 121, 110, 111, 100, 101>>

(***************************************************************************)
(* C1 as stated: for every non-empty pattern and target, of any length,    *)
(* fuzzyMatch returns matched exactly when the pattern is a                *)
(* case-insensitive subsequence of the target, and score 0 whenever it     *)
(* returns not matched.                                                    *)
(***************************************************************************)
C1_MatchesIffSubsequence ==
    (Done /\ pattern # << >> /\ target # << >>) =>
        /\ (Result.matched <=> IsSubsequence(pattern, target))
        /\ (~Result.matched => Result.score = 0)

(***************************************************************************)
(* C1 amended: the same for every non-empty pattern of at most 256         *)
(* characters (the match-position cap) and every non-empty target.         *)
(***************************************************************************)
C1_MatchesIffSubsequenceWithinCap ==
    (Done /\ pattern # << >> /\ target # << >> /\ Len(pattern) <= 256) =>
        /\ (Result.matched <=> IsSubsequence(pattern, target))
        /\ (~Result.matched => Result.score = 0)

C1_Witness ==
    Done /\ pattern = AtCap /\ target = AtCap /\ Result.matched

(***************************************************************************)
(* C7: every fuzzyMatch call terminates with a definite (matched, score)   *)
(* pair; the chain of nested invocations never exceeds depth 5; an         *)
(* invocation entered at depth 5 returns (false, 0) at once; an invocation *)
(* that would record a match position beyond the 256 cap returns           *)
(* (false, 0).                                                             *)
(***************************************************************************)
C7_Terminates ==
    <>(Done /\ Len(returned) = 1
            /\ Result.matched \in BOOLEAN /\ Result.score \in Int)

C7_DepthBounded == Len(stack) <= 5

C7_DepthFiveReturns ==
    (Len(stack) = 5 /\ Top.pc = "entry") =>
        /\ stack' = Front(stack)
        /\ returned' = << Returned(FALSE, 0) >>

C7_BeyondCapReturns ==
    (/\ stack # << >>
     /\ Top.pc = "loop"
     /\ LoopCond(Top)
     /\ MatchFound(Top)
     /\ Top.nextMatch >= 256) =>
        /\ stack' = Front(stack)
        /\ returned' = << Returned(FALSE, 0) >>

C7_TerminatesWithinBounds ==
    /\ C7_Terminates
    /\ []C7_DepthBounded
    /\ [][C7_DepthFiveReturns]_vars
    /\ [][C7_BeyondCapReturns]_vars

C7_Witness == Len(stack) = 5 /\ Top.pc = "entry"

(***************************************************************************)
(* C8: an invocation that fully matches returns the maximum of the score   *)
(* of its own greedy alignment and the scores of the recursive calls it    *)
(* made that matched; so fuzzyMatch's score is the maximum of the score of *)
(* the earliest-position alignment and its matched branches, never lower   *)
(* than the former, and "ab" on "a_ab" scores 120, not the greedy 105.     *)
(***************************************************************************)
C8_InvocationReturnsBest ==
    AboutToScore =>
        returned' = << Returned(TRUE,
            SetMax({HeuristicScore(Top.target, Top.matches, Top.nextMatch)}
                   \cup childScores[Len(childScores)])) >>

C8_OutermostReturnsBest ==
    (AboutToScore /\ Len(stack) = 1) =>
        returned' = << Returned(TRUE,
            SetMax({GreedyScore(pattern, target)} \cup childScores[1])) >>

C8_NeverBelowGreedy ==
    (Done /\ Result.matched) =>
        /\ Result.score >= GreedyScore(pattern, target)
        /\ (pattern = Str_ab /\ target = Str_a_ab) =>
               (Result.score = 120 /\ GreedyScore(pattern, target) = 105)

C8_BestOfGreedyAndBranches ==
    /\ [][C8_InvocationReturnsBest]_vars
    /\ [][C8_OutermostReturnsBest]_vars
    /\ []C8_NeverBelowGreedy

C8_Witness ==
    Done /\ pattern = Str_ab /\ target = Str_a_ab /\ Result.score = 120

(***************************************************************************)
(* C9.  Whether the position at 0-based target index currIdx > 0 was given *)
(* the camel-case bonus: what lines 163-176 add, less the separator bonus. *)
(***************************************************************************)
CamelAwarded(t, currIdx) ==
    NeighborPart(t, currIdx)
        - (IF t[currIdx] \in {95, 32} THEN 30 ELSE 0) = 30

(***************************************************************************)
(* C9 as stated: a matched position at target index > 0 receives the       *)
(* camel-case bonus exactly when the preceding character is lowercase and  *)
(* the matched character is not lowercase (digits and symbols included);   *)
(* "n" on "myNode" scores higher than "n" on "mynode".                     *)
(***************************************************************************)
C9_CamelWhenNotLowercase ==
    /\ AboutToScore =>
         \A i \in 1..Top.nextMatch :
            LET currIdx == Top.matches[i]
            IN  currIdx > 0 =>
                  (CamelAwarded(Top.target, currIdx) <=>
                      /\ IsLowercaseLetter(Top.target[currIdx])
                      /\ ~IsLowercaseLetter(Top.target[currIdx + 1]))
    /\ (Done /\ pattern = Str_n /\ target = Str_myNode) => Result.score = 75
    /\ (Done /\ pattern = Str_n /\ target = Str_mynode) => Result.score = 45

(***************************************************************************)
(* C9 amended: the bonus is given exactly when the preceding character is  *)
(* a lowercase letter and the matched character is an uppercase letter;    *)
(* "n" on "myNode" scores 75, on "mynode" 45.                              *)
(***************************************************************************)
C9_CamelWhenUppercase ==
    /\ AboutToScore =>
         \A i \in 1..Top.nextMatch :
            LET currIdx == Top.matches[i]
            IN  currIdx > 0 =>
                  (CamelAwarded(Top.target, currIdx) <=>
                      /\ IsLowercaseLetter(Top.target[currIdx])
                      /\ IsUppercaseLetter(Top.target[currIdx + 1]))
    /\ (Done /\ pattern = Str_n /\ target = Str_myNode) => Result.score = 75
    /\ (Done /\ pattern = Str_n /\ target = Str_mynode) => Result.score = 45

C9_Witness ==
    /\ AboutToScore
    /\ Top.target = Str_myNode
    /\ Top.matches = << 2 >>
    /\ CamelAwarded(Top.target, 2)

(***************************************************************************)
(* C10: in every invocation the recorded match positions are strictly      *)
(* increasing target indices, the inherited ones included; so in a scored  *)
(* alignment a position at target index 0 is the first position and gets   *)
(* exactly the +15 first-letter bonus, no adjacency, camel-case or         *)
(* separator bonus.                                                        *)
(***************************************************************************)
\* the positions an invocation holds: its caller's until its first match
HeldPositions(f) ==
    IF f.firstMatch /\ ~f.targetMatches.isNull
    THEN f.targetMatches.items
    ELSE f.matches

C10_PositionsIncreaseFirstLetterOnly ==
    /\ \A d \in 1..Len(stack) :
          /\ Len(HeldPositions(stack[d])) = stack[d].nextMatch
          /\ StrictlyIncreasing(HeldPositions(stack[d]))
          /\ \A i \in 1..stack[d].nextMatch :
                /\ HeldPositions(stack[d])[i] >= 0
                /\ HeldPositions(stack[d])[i] < stack[d].targetCurrIndex
    /\ AboutToScore =>
          /\ Top.matches = HeldPositions(Top)
          /\ \A i \in 0..(Top.nextMatch - 1) :
                Top.matches[i + 1] = 0 =>
                   /\ i = 0
                   /\ SequentialPart(Top.matches, i) = 0
                   /\ NeighborPart(Top.target, 0) = 15
                   /\ PositionBonus(Top.target, Top.matches, i) = 15

C10_Witness ==
    /\ AboutToScore
    /\ Len(stack) >= 2
    /\ Top.nextMatch >= 2
    /\ Top.matches[1] = 0

(***************************************************************************)
(* Notions for the statements about search.                                *)
(***************************************************************************)
\* the strings the k-th KeySpec extracts from an item: the field value if
\* it is a string, its string elements if it is an array
ExtractedStrings(item, k) ==
    LET got == getValue(item, keys[k].key)
    IN  IF got.kind # "ok" THEN {}
        ELSE IF got.value.type = "string" THEN {got.value.chars}
        ELSE IF got.value.type = "array"
        THEN {got.value.elems[e].chars :
                 e \in {e \in 1..Len(got.value.elems) :
                           got.value.elems[e].type = "string"}}
        ELSE {}

\* the weighted candidate strings of data[i]
Candidates(i) ==
    UNION {{[chars |-> c, weight |-> keys[k].weight] :
               c \in ExtractedStrings(data[i], k)} : k \in 1..Len(keys)}

\* some candidate of data[i] contains the non-empty filter as a subsequence
Qualifies(i) ==
    /\ filter # << >>
    /\ \E c \in Candidates(i) : IsSubsequence(filter, c.chars)

\* the weighted scores of the candidates of data[i] that the matcher matches
WeightedScores(i) ==
    {c.weight * fuzzyMatch(filter, c.chars).score :
        c \in {c \in Candidates(i) :
                  /\ fuzzyMatchSimple(filter, c.chars)
                  /\ fuzzyMatch(filter, c.chars).matched}}

Emitted(i) == {j \in 1..Len(output) : output[j].item = i}

EmitsExactlyTheQualifying ==
    /\ \A j \in 1..Len(output) : output[j].item \in 1..Len(data)
    /\ \A i \in 1..Len(data) :
          Cardinality(Emitted(i)) = IF Qualifies(i) THEN 1 ELSE 0
    /\ filter = << >> => output = << >>

(***************************************************************************)
(* C2 as stated: search emits a Result for an item exactly when one of its *)
(* weighted candidate strings contains the pattern as a non-empty          *)
(* case-insensitive subsequence, each such item once, and nothing for an   *)
(* empty pattern.                                                          *)
(***************************************************************************)
C2_EmitsIffCandidateContains ==
    searchState = "returned" => EmitsExactlyTheQualifying

(***************************************************************************)
(* C2 amended: the same for the list search returns when the pattern has   *)
(* at most 256 characters.                                                 *)
(***************************************************************************)
C2_EmitsIffCandidateContainsWithinCap ==
    (searchState = "returned" /\ Len(filter) <= 256) =>
        EmitsExactlyTheQualifying

C2_Witness ==
    /\ searchState = "returned"
    /\ filter = Str_nd
    /\ Len(data) = 2
    /\ Len(output) = 1
    /\ Qualifies(output[1].item)

(***************************************************************************)
(* C3: the sequence search returns is ordered by score, descending.        *)
(***************************************************************************)
C3_SortedByScoreDescending ==
    searchState = "returned" =>
        \A i \in 1..Len(output) : \A j \in 1..Len(output) :
            i < j => output[i].score >= output[j].score

C3_Witness ==
    /\ searchState = "returned"
    /\ Len(output) = 2
    /\ output[1].item = 2
    /\ output[2].item = 1
    /\ output[1].score > output[2].score

(***************************************************************************)
(* C4: the score of every item in the result is the maximum, over the      *)
(* item's weighted candidates that pass the subsequence filter and are     *)
(* matched by fuzzyMatch, of weight times fuzzyMatch score.                *)
(***************************************************************************)
C4_ScoreIsBestWeightedCandidate ==
    searchState = "returned" =>
        \A j \in 1..Len(output) :
            /\ WeightedScores(output[j].item) # {}
            /\ output[j].score = SetMax(WeightedScores(output[j].item))

C4_Witness ==
    /\ searchState = "returned"
    /\ Len(output) = 1
    /\ Cardinality(WeightedScores(output[1].item)) >= 2
    /\ output[1].score = SetMax(WeightedScores(output[1].item))

(***************************************************************************)
(* C5.  The KeySpecs are two, of weights 1 and 10, and both extract from   *)
(* data[i] a string that fuzzyMatch matches.                               *)
(***************************************************************************)
TwoWeights ==
    /\ Len(keys) = 2
    /\ {keys[1].weight, keys[2].weight} = {1, 10}

KeyOfWeight(w) == CHOOSE k \in 1..2 : keys[k].weight = w

FieldIsString(i, w) ==
    /\ getValue(data[i], keys[KeyOfWeight(w)].key).kind = "ok"
    /\ getValue(data[i], keys[KeyOfWeight(w)].key).value.type = "string"

FieldMatch(i, w) ==
    fuzzyMatch(filter, getValue(data[i], keys[KeyOfWeight(w)].key).value.chars)

BothFieldsMatch(i) ==
    /\ FieldIsString(i, 1)
    /\ FieldIsString(i, 10)
    /\ FieldMatch(i, 1).matched
    /\ FieldMatch(i, 10).matched

(***************************************************************************)
(* C5 as stated: when the fields of weights 1 and 10 both match, the       *)
(* item's score is the weighted score of the weight-10 field, whatever the *)
(* two unweighted scores are.                                              *)
(***************************************************************************)
C5_HigherWeightDominates ==
    (searchState = "returned" /\ TwoWeights) =>
        \A j \in 1..Len(output) :
            BothFieldsMatch(output[j].item) =>
                output[j].score = 10 * FieldMatch(output[j].item, 10).score

(***************************************************************************)
(* C5 amended: the item's score is the larger of the two weighted scores,  *)
(* 1 x score1 and 10 x score10; it is the weight-10 field's weighted score *)
(* whenever 10 x score10 >= score1.                                        *)
(***************************************************************************)
C5_LargerWeightedScoreDominates ==
    (searchState = "returned" /\ TwoWeights) =>
        \A j \in 1..Len(output) :
            BothFieldsMatch(output[j].item) =>
                LET s1 == FieldMatch(output[j].item, 1).score
                    s10 == FieldMatch(output[j].item, 10).score
                IN  /\ output[j].score = SetMax({s1, 10 * s10})
                    /\ 10 * s10 >= s1 => output[j].score = 10 * s10

C5_Witness ==
    /\ searchState = "returned"
    /\ TwoWeights
    /\ Len(output) = 1
    /\ BothFieldsMatch(output[1].item)
    /\ FieldMatch(output[1].item, 10).score < FieldMatch(output[1].item, 1).score
    /\ output[1].score = 10 * FieldMatch(output[1].item, 10).score

(***************************************************************************)
(* C6: search never raises an error, whatever the shape of its input: an   *)
(* item that is not a structured object (a scalar, null) is passed through *)
(* by getValue unchanged, and the call completes with a result list.       *)
(***************************************************************************)
\* the items the callback of data.map has been applied to
Visited ==
    1..(IF searchState = "thrown" THEN Len(results) + 1 ELSE Len(results))

C6_NeverRaises ==
    /\ searchState # "thrown"
    /\ \A i \in Visited : \A k \in 1..Len(keys) :
          data[i].type \in {"null", "undefined", "string", "number"} =>
              getValue(data[i], keys[k].key) = Ok(data[i])

====
